---- MODULE Spec2Model ----
(***************************************************************************)
(* Model of bot_escape_san_antonio.py: the escape-room progression engine  *)
(* (ten rooms, three optional rooms, hints, inventory, score) driven by    *)
(* Telegram updates: commands, callback buttons and text messages.         *)
(*                                                                         *)
(* A Python str that is normalized or compared is a sequence of            *)
(* characters; a character is a one-element string, except the accented    *)
(* letters "o_acute"/"O_acute" and the combining mark "COMBINING_ACUTE".   *)
(* A dict that maps room -> count is a total function with 0 for an absent *)
(* key (every read in the source is .get(room, 0)).  The inventory list is *)
(* kept duplicate-free by add_item and only its membership is ever read by *)
(* the game logic, so it is the set of its elements.                       *)
(***************************************************************************)
EXTENDS Integers, Sequences, FiniteSets, TLC

(* ---------------------------------------------------------------- bounds *)
\* clock ticks per behaviour, and the seconds one tick adds
MaxTicks == 1
TickSec == 1300
\* /pista requests in one room
MaxHintReq == 3
\* inputs per behaviour that leave the straight line of play: a press of a
\* button that is not on the keyboard of the last reply, a text that only
\* counts an attempt, the first /pista of a room, a send that raises
MaxExtra == 1

\* free-hint credits of the record a hint scenario starts from
MaxCredits == 2

\* texts that count an attempt in the records of a group chat, all together
MaxGroupAttempts == 3

(* ------------------------------------------------------------- constants *)
MODE_INDIVIDUAL == "individual"
MODE_GROUP == "group"
None == "None"
NoItem == ""
\* state["start_ts"] absent from the dict
NoKey == -1

Users == {"u1", "u2"}
RoomIds == 1..10
OptIds == {"A", "B", "C"}

(* ----------------------------------------------------------- str values *)
ans_r1 == <<"v", "e", "n", "d", "e", " ", "l", "o", " ", "q", "u", "e",
    " ", "t", "i", "e", "n", "e", "s", " ", "y", " ", "d", "a", "l", "o",
    " ", "a", " ", "l", "o", "s", " ", "p", "o", "b", "r", "e", "s">>
ans_b == <<"b">>
ans_desierto == <<"d", "e", "s", "i", "e", "r", "t", "o">>
ans_aliento == <<"a", "l", "i", "e", "n", "t", "o">>
ans_falso == <<"f", "a", "l", "s", "o">>
ans_caridad == <<"c", "a", "r", "i", "d", "a", "d">>
ans_humildad == <<"h", "u", "m", "i", "l", "d", "a", "d">>
ans_fe == <<"f", "e">>
ans_pobreza == <<"p", "o", "b", "r", "e", "z", "a">>
ans_perseverancia == <<"p", "e", "r", "s", "e", "v", "e", "r", "a", "n",
    "c", "i", "a">>
ans_confianza == <<"c", "o", "n", "f", "i", "a", "n", "z", "a">>
ans_escuchar == <<"e", "s", "c", "u", "c", "h", "a", "r">>
ans_compasion == <<"c", "o", "m", "p", "a", "s", "i", "o", "n">>
str_RENUNCIA == <<"R", "E", "N", "U", "N", "C", "I", "A">>
str_DESAPEGO == <<"D", "E", "S", "A", "P", "E", "G", "O">>
str_SOLEDAD == <<"S", "O", "L", "E", "D", "A", "D">>
str_FORTALEZA == <<"F", "O", "R", "T", "A", "L", "E", "Z", "A">>
str_ORACION == <<"O", "R", "A", "C", "I", "O", "N">>
str_COMUNIDAD == <<"C", "O", "M", "U", "N", "I", "D", "A", "D">>
str_SABIDURIA == <<"S", "A", "B", "I", "D", "U", "R", "I", "A">>
str_COMPASION == <<"C", "O", "M", "P", "A", "S", "I", "O", "N">>
str_PAZ_INTERIOR == <<"P", "A", "Z", "_", "I", "N", "T", "E", "R", "I", "O",
    "R">>
raw_r1 == <<" ", "V", "e", "n", "d", "e", " ", "l", "o", " ", "q", "u",
    "e", " ", " ", "t", "i", "e", "n", "e", "s", " ", "y", " ", "d", "a",
    "l", "o", " ", "a", " ", "l", "o", "s", " ", "p", "o", "b", "r", "e",
    "s", " ">>
raw_desierto == <<"D", "e", "s", "i", "e", "r", "t", "o">>
raw_compasion == <<"C", "o", "m", "p", "a", "s", "i", "o_acute", "n">>
raw_three == <<"r", "e", "n", "u", "n", "c", "i", "a", ",", " ", "O", "r",
    "a", "c", "i", "o_acute", "n", " ", ",", "s", "a", "b", "i", "d", "u",
    "r", "i", "a">>
raw_two == <<"r", "e", "n", "u", "n", "c", "i", "a", ",", "d", "e", "s",
    "a", "p", "e", "g", "o">>
raw_dup == <<"r", "e", "n", "u", "n", "c", "i", "a", ",", "r", "e", "n",
    "u", "n", "c", "i", "a", ",", "d", "e", "s", "a", "p", "e", "g", "o">>
raw_four == <<"d", "e", "s", "a", "p", "e", "g", "o", ",", "s", "o", "l",
    "e", "d", "a", "d", ",", "r", "e", "n", "u", "n", "c", "i", "a", ",",
    "b">>
raw_bad3 == <<"r", "e", "n", "u", "n", "c", "i", "a", ",", "b", ",", "d",
    "e", "s", "a", "p", "e", "g", "o">>
raw_bad2 == <<"p", "a", "z", "_", "i", "n", "t", "e", "r", "i", "o", "r",
    ",", "b">>

(* ------------------------------------------------------------- normalize *)
WHITESPACE == {" "}
MARKS == {"COMBINING_ACUTE"}

\* str.lower() on one character
lower(c) ==
    CASE c = "A" -> "a" [] c = "B" -> "b" [] c = "C" -> "c" [] c = "D" -> "d"
      [] c = "E" -> "e" [] c = "F" -> "f" [] c = "G" -> "g" [] c = "H" -> "h"
      [] c = "I" -> "i" [] c = "J" -> "j" [] c = "K" -> "k" [] c = "L" -> "l"
      [] c = "M" -> "m" [] c = "N" -> "n" [] c = "O" -> "o" [] c = "P" -> "p"
      [] c = "Q" -> "q" [] c = "R" -> "r" [] c = "S" -> "s" [] c = "T" -> "t"
      [] c = "U" -> "u" [] c = "V" -> "v" [] c = "W" -> "w" [] c = "X" -> "x"
      [] c = "Y" -> "y" [] c = "Z" -> "z" [] c = "O_acute" -> "o_acute"
      [] OTHER -> c

\* unicodedata.normalize("NFD", c) on one character
NFD(c) ==
    CASE c = "o_acute" -> <<"o", "COMBINING_ACUTE">>
      [] c = "O_acute" -> <<"O", "COMBINING_ACUTE">>
      [] OTHER -> <<c>>

RECURSIVE lstrip(_)
lstrip(s) ==
    IF s # <<>> /\ Head(s) \in WHITESPACE THEN lstrip(Tail(s)) ELSE s

RECURSIVE rstrip(_)
rstrip(s) ==
    IF s # <<>> /\ s[Len(s)] \in WHITESPACE
    THEN rstrip(SubSeq(s, 1, Len(s) - 1)) ELSE s

strip(s) == rstrip(lstrip(s))

RECURSIVE MapLower(_)
MapLower(s) ==
    IF s = <<>> THEN <<>> ELSE <<lower(Head(s))>> \o MapLower(Tail(s))

\* "".join(c for c in NFD(text) if category(c) != "Mn")
RECURSIVE StripMarks(_)
StripMarks(s) ==
    IF s = <<>> THEN <<>>
    ELSE SelectSeq(NFD(Head(s)), LAMBDA c : c \notin MARKS)
         \o StripMarks(Tail(s))

\* str.split(sep): every separator cuts, empty pieces are kept
RECURSIVE split(_, _)
split(s, sep) ==
    IF \A i \in 1..Len(s) : s[i] \notin sep THEN <<s>>
    ELSE LET i == CHOOSE k \in 1..Len(s) :
                      s[k] \in sep /\ \A j \in 1..(k - 1) : s[j] \notin sep
         IN  <<SubSeq(s, 1, i - 1)>> \o split(SubSeq(s, i + 1, Len(s)), sep)

\* " ".join(words)
RECURSIVE join(_)
join(words) ==
    IF words = <<>> THEN <<>>
    ELSE IF Len(words) = 1 THEN words[1]
    ELSE words[1] \o <<" ">> \o join(Tail(words))

normalize(text) ==
    LET t1 == MapLower(strip(text))
        t2 == StripMarks(t1)
    IN  join(SelectSeq(split(t2, WHITESPACE), LAMBDA w : w # <<>>))

(* --------------------------------------------------------------- catalog *)
NoAnswers == {}

ROOMS ==
    [n \in RoomIds |->
       CASE n = 1 -> [answers |-> {ans_r1}, item |-> "RENUNCIA", image |-> FALSE, hints |-> 2]
         [] n = 2 -> [answers |-> {ans_b}, item |-> "DESAPEGO", image |-> FALSE, hints |-> 2]
         [] n = 3 -> [answers |-> {ans_desierto}, item |-> "SOLEDAD", image |-> TRUE, hints |-> 2]
         [] n = 4 -> [answers |-> NoAnswers, item |-> "FORTALEZA", image |-> FALSE, hints |-> 2]
         [] n = 5 -> [answers |-> {ans_aliento}, item |-> "ORACION", image |-> FALSE, hints |-> 2]
         [] n = 6 -> [answers |-> {ans_falso}, item |-> "COMUNIDAD", image |-> FALSE, hints |-> 2]
         [] n = 7 -> [answers |-> {ans_b}, item |-> "SABIDURIA", image |-> FALSE, hints |-> 2]
         [] n = 8 -> [answers |-> {ans_caridad}, item |-> "COMPASION", image |-> FALSE, hints |-> 2]
         [] n = 9 -> [answers |-> {ans_humildad, ans_fe, ans_pobreza,
                                   ans_perseverancia},
                      item |-> "PAZ_INTERIOR", image |-> FALSE, hints |-> 2]
         [] n = 10 -> [answers |-> NoAnswers, item |-> NoItem, image |-> FALSE, hints |-> 2]]

\* the characters of an inventory item (ROOMS[n]["item"])
ItemText ==
    [i \in {"RENUNCIA", "DESAPEGO", "SOLEDAD", "FORTALEZA", "ORACION",
            "COMUNIDAD", "SABIDURIA", "COMPASION", "PAZ_INTERIOR"} |->
       CASE i = "RENUNCIA" -> str_RENUNCIA
         [] i = "DESAPEGO" -> str_DESAPEGO
         [] i = "SOLEDAD" -> str_SOLEDAD
         [] i = "FORTALEZA" -> str_FORTALEZA
         [] i = "ORACION" -> str_ORACION
         [] i = "COMUNIDAD" -> str_COMUNIDAD
         [] i = "SABIDURIA" -> str_SABIDURIA
         [] i = "COMPASION" -> str_COMPASION
         [] i = "PAZ_INTERIOR" -> str_PAZ_INTERIOR]

Items == DOMAIN ItemText

OPTIONALS ==
    [o \in OptIds |->
       CASE o = "A" -> [answers |-> {ans_escuchar},
                        reward |-> [free_hints |-> 1], back_to |-> 4]
         [] o = "B" -> [answers |-> {ans_b},
                        reward |-> [remove_penalty_sec |-> 60], back_to |-> 7]
         [] o = "C" -> [answers |-> {ans_compasion},
                        reward |-> [jokers |-> 1], back_to |-> 9]]

OPTIONAL_OFFER_POINTS ==
    [r \in {3, 6, 8} |->
       CASE r = 3 -> <<"A", 4>> [] r = 6 -> <<"B", 7>> [] r = 8 -> <<"C", 9>>]

EXPECTED_S4 == <<ans_humildad, ans_pobreza, ans_confianza>>

\* the texts a player submits
RawTexts ==
    {raw_r1, ans_b, raw_desierto, ans_aliento, ans_falso, ans_caridad,
     ans_humildad, ans_fe, ans_pobreza, ans_perseverancia, ans_confianza,
     ans_escuchar, raw_compasion,
     raw_three, raw_two, raw_dup, raw_four, raw_bad3, raw_bad2}

\* normalize(raw) and normalize(item), evaluated once per text
NormText == [raw \in RawTexts |-> normalize(raw)]
NormItem == [i \in Items |-> normalize(ItemText[i])]

(* ----------------------------------------------------------------- state *)
VARIABLES
    user_data,   \* context.user_data of each user: <<>> or <<escape record>>
    chat_data,   \* context.chat_data of the chat: <<>> or <<escape record>>
    chat_type,   \* update.effective_chat.type
    now,         \* the clock read by now_ts()
    shown,       \* callback buttons of the keyboards sent to the chat so far
    keyboard,    \* callback buttons of the keyboard of the last reply
    began,       \* per container: when its record was last made fresh
    extra,       \* inputs off the straight line of play so far
    running      \* the handler calls that wait on a send, oldest first

vars == <<user_data, chat_data, chat_type, now, shown, keyboard, began, extra,
          running>>

ZeroMap == [r \in RoomIds |-> 0]

init_state(t) ==
    [mode |-> None, room |-> 0, inventory |-> {}, start_ts |-> t,
     penalty_sec |-> 0, hints_used |-> ZeroMap, attempts |-> ZeroMap,
     completed |-> FALSE, optional_done |-> {}, in_optional |-> None,
     free_hints |-> 0, jokers |-> 0, s4_step |-> 0]

\* cont["escape"] = {}; init_state(cont); cont["escape"]["mode"] = mode:
\* "escape" is already a key when init_state runs, so it adds nothing and the
\* dict holds "mode" alone.  Every other key reads as its .get default, which
\* is the init_state value except for start_ts (elapsed reads now_ts()).
restart_state(mode) ==
    [init_state(NoKey) EXCEPT !.mode = mode]

\* the content of the container stored under a key (<<>>: no "escape" key),
\* and its record
Cont(k) == IF k = "chat" THEN chat_data ELSE user_data[k]
Rec(k) == Cont(k)[1]

\* faulty variant of get_container: the record of the chat is never looked at
get_container_own(u) == u

\* get_container: the key of the container the update is applied to
get_container(u) ==
    IF chat_data # <<>> /\ chat_data[1].mode = MODE_GROUP THEN "chat" ELSE u

\* st(context), after init_state created the record if it was absent
st(u) ==
    IF get_container(u) = "chat" THEN chat_data[1]
    ELSE IF user_data[u] = <<>> THEN init_state(now) ELSE user_data[u][1]

\* the time the record st(u) was made fresh
BeganOf(u) ==
    IF get_container(u) = "chat" THEN began["chat"]
    ELSE IF user_data[u] = <<>> THEN now ELSE began[u]

\* write back the record of the update's container
Store(u, state, b) ==
    IF get_container(u) = "chat"
    THEN /\ chat_data' = <<state>>
         /\ user_data' = user_data
         /\ began' = [began EXCEPT !["chat"] = b]
    ELSE /\ user_data' = [user_data EXCEPT ![u] = <<state>>]
         /\ chat_data' = chat_data
         /\ began' = [began EXCEPT ![u] = b]

Participants == IF chat_type = "private" THEN {"u1"} ELSE Users

(* --------------------------------------------------------------- helpers *)
RECURSIVE SumTo(_, _)
SumTo(d, n) == IF n = 0 THEN 0 ELSE d[n] + SumTo(d, n - 1)

count_total_attempts(state) == SumTo(state.attempts, 10)

count_total_hints_used(state) == SumTo(state.hints_used, 10)

elapsed(state, t) ==
    (t - (IF state.start_ts = NoKey THEN t ELSE state.start_ts))
    + state.penalty_sec

compute_score(state, t) ==
    LET base == 1000
        total_time == elapsed(state, t)
        hints_used == count_total_hints_used(state)
        attempts == count_total_attempts(state)
        optional_done == Cardinality(state.optional_done)
        s1 == base - total_time - 40 * hints_used - 5 * attempts
              + 50 * optional_done
        s2 == IF state.completed THEN s1 + 200 ELSE s1
    IN  [score |-> IF s2 < 0 THEN 0 ELSE s2,
         time_sec |-> total_time,
         penalty_sec |-> state.penalty_sec,
         hints_used |-> hints_used,
         attempts |-> attempts,
         optional_done |-> optional_done]

\* faulty variant of add_item: the membership test inverted
add_item_inverted(state, item) ==
    IF item = NoItem THEN state
    ELSE IF item \notin state.inventory THEN state
    ELSE [state EXCEPT !.inventory = @ \cup {item}]

add_item(state, item) ==
    IF item = NoItem THEN state
    ELSE IF item \in state.inventory THEN state
    ELSE [state EXCEPT !.inventory = @ \cup {item}]

inc(state, room) ==
    [state EXCEPT !.attempts[room] = @ + 1]

\* the unique normalized non-empty tokens of raw.split(","), in order
RECURSIVE Dedup(_, _)
Dedup(items, unique) ==
    IF items = <<>> THEN unique
    ELSE Dedup(Tail(items),
               IF \E k \in 1..Len(unique) : unique[k] = Head(items)
               THEN unique ELSE Append(unique, Head(items)))

RECURSIVE MapNormalize(_)
MapNormalize(toks) ==
    IF toks = <<>> THEN <<>>
    ELSE <<normalize(Head(toks))>> \o MapNormalize(Tail(toks))

UniqueTokens(raw) ==
    Dedup(SelectSeq(MapNormalize(split(raw, {","})), LAMBDA x : x # <<>>),
          <<>>)

UniqueOf == [raw \in RawTexts |-> UniqueTokens(raw)]

\* faulty variant of validate_room_10: two tokens pass without looking at jokers
validate_room_10_any_joker(raw, inv, jokers) ==
    LET inv_norm == {NormItem[x] : x \in inv}
        unique == UniqueOf[raw]
    IN  IF Len(unique) >= 3
        THEN <<{unique[k] : k \in 1..3} \subseteq inv_norm, FALSE>>
        ELSE IF Len(unique) = 2
        THEN <<{unique[k] : k \in 1..2} \subseteq inv_norm, TRUE>>
        ELSE <<FALSE, FALSE>>

\* validate_room_10(raw, inv, jokers) = <<ok, used_joker>>
validate_room_10(raw, inv, jokers) ==
    LET inv_norm == {NormItem[x] : x \in inv}
        unique == UniqueOf[raw]
    IN  IF Len(unique) >= 3
        THEN <<{unique[k] : k \in 1..3} \subseteq inv_norm, FALSE>>
        ELSE IF Len(unique) = 2 /\ jokers > 0
        THEN <<{unique[k] : k \in 1..2} \subseteq inv_norm, TRUE>>
        ELSE <<FALSE, FALSE>>

send_room(state, room) ==
    [state EXCEPT !.room = room,
                  !.s4_step = IF room = 4 THEN 0 ELSE @]

NormAnswers == [n \in RoomIds |-> {normalize(a) : a \in ROOMS[n].answers}]
NormOptAnswers == [o \in OptIds |-> {normalize(a) : a \in OPTIONALS[o].answers}]

(* ------------------------------------------------------ callback buttons *)
BtnEnter1 == [kind |-> "enter_1", opt |-> None, next |-> 0]
BtnOptEnter(o) == [kind |-> "opt_enter", opt |-> o, next |-> 0]
BtnOptSkip(o, n) == [kind |-> "opt_skip", opt |-> o, next |-> n]

\* offer_optional: the keyboard of the offer message
offer_optional(opt_id, next_room) ==
    {BtnOptEnter(opt_id), BtnOptSkip(opt_id, next_room)}

NoStats == <<>>
\* what a handler leaves behind: the record, the reply and its keyboard
Reply(state, tag) == [state |-> state, tag |-> tag, kb |-> {}, stats |-> NoStats]

(* ------------------------------------------------------------- cmd_pista *)
\* faulty variant of CmdPista: every paid hint costs 30 seconds
CmdPista_flat(state) ==
    IF state.mode = None THEN Reply(state, "mode_prompt")
    ELSE IF state.completed THEN Reply(state, "already_completed")
    ELSE IF state.in_optional # None THEN Reply(state, "optional_no_hint")
    ELSE IF state.room = 0 THEN Reply(state, "not_started")
    ELSE IF ROOMS[state.room].hints = 0 THEN Reply(state, "room_no_hints")
    ELSE
      LET room == state.room
          used == state.hints_used[room] + 1
          s1 == [state EXCEPT !.hints_used[room] = used]
          idx == used - 1
      IN  IF idx >= ROOMS[room].hints THEN Reply(s1, "no_more_hints")
          ELSE IF s1.free_hints > 0
          THEN Reply([s1 EXCEPT !.free_hints = @ - 1], "hint_free")
          ELSE Reply([s1 EXCEPT !.penalty_sec = @ + 30], "hint_paid")

\* faulty variant of CmdPista: the request is not checked against the hints left
CmdPista_unchecked(state) ==
    IF state.mode = None THEN Reply(state, "mode_prompt")
    ELSE IF state.completed THEN Reply(state, "already_completed")
    ELSE IF state.in_optional # None THEN Reply(state, "optional_no_hint")
    ELSE IF state.room = 0 THEN Reply(state, "not_started")
    ELSE IF ROOMS[state.room].hints = 0 THEN Reply(state, "room_no_hints")
    ELSE
      LET room == state.room
          used == state.hints_used[room] + 1
          s1 == [state EXCEPT !.hints_used[room] = used]
      IN  IF s1.free_hints > 0
          THEN Reply([s1 EXCEPT !.free_hints = @ - 1], "hint_free")
          ELSE Reply([s1 EXCEPT !.penalty_sec = @ + 30 * used], "hint_paid")

CmdPista(state) ==
    IF state.mode = None THEN Reply(state, "mode_prompt")
    ELSE IF state.completed THEN Reply(state, "already_completed")
    ELSE IF state.in_optional # None THEN Reply(state, "optional_no_hint")
    ELSE IF state.room = 0 THEN Reply(state, "not_started")
    ELSE IF ROOMS[state.room].hints = 0 THEN Reply(state, "room_no_hints")
    ELSE
      LET room == state.room
          used == state.hints_used[room] + 1
          s1 == [state EXCEPT !.hints_used[room] = used]
          idx == used - 1
      IN  IF idx >= ROOMS[room].hints THEN Reply(s1, "no_more_hints")
          ELSE IF s1.free_hints > 0
          THEN Reply([s1 EXCEPT !.free_hints = @ - 1], "hint_free")
          ELSE Reply([s1 EXCEPT !.penalty_sec = @ + 30 * used], "hint_paid")

(* ----------------------------------------------------------------- on_text *)
\* the reward block of on_text (lines 680-686)
apply_reward(state, reward) ==
    LET s1 == IF "free_hints" \in DOMAIN reward
              THEN [state EXCEPT !.free_hints = @ + reward.free_hints]
              ELSE state
        s2 == IF "jokers" \in DOMAIN reward
              THEN [s1 EXCEPT !.jokers = @ + reward.jokers]
              ELSE s1
    IN  IF "remove_penalty_sec" \in DOMAIN reward
        THEN [s2 EXCEPT !.penalty_sec =
                 IF @ - reward.remove_penalty_sec < 0 THEN 0
                 ELSE @ - reward.remove_penalty_sec]
        ELSE s2

\* faulty variant of OptionalText: in_optional is not cleared when the optional is solved
OptionalText_keeps(state, txt) ==
    LET opt_id == state.in_optional
    IN  IF txt \notin NormOptAnswers[opt_id] THEN Reply(state, "optional_retry")
        ELSE
          LET s1 == [state EXCEPT !.optional_done = @ \cup {opt_id}]
              s2 == apply_reward(s1, OPTIONALS[opt_id].reward)
          IN  Reply(send_room(s2, OPTIONALS[opt_id].back_to), "optional_solved")

\* faulty variant of OptionalText: a wrong answer counts an attempt of the room
OptionalText_counts(state, txt) ==
    LET opt_id == state.in_optional
    IN  IF txt \notin NormOptAnswers[opt_id]
        THEN Reply(inc(state, state.room), "optional_retry")
        ELSE
          LET s1 == [state EXCEPT !.optional_done = @ \cup {opt_id}]
              s2 == apply_reward(s1, OPTIONALS[opt_id].reward)
              s3 == [s2 EXCEPT !.in_optional = None]
          IN  Reply(send_room(s3, OPTIONALS[opt_id].back_to), "optional_solved")

\* the in_optional branch of on_text (lines 669-691)
OptionalText(state, txt) ==
    LET opt_id == state.in_optional
    IN  IF txt \notin NormOptAnswers[opt_id] THEN Reply(state, "optional_retry")
        ELSE
          LET s1 == [state EXCEPT !.optional_done = @ \cup {opt_id}]
              s2 == apply_reward(s1, OPTIONALS[opt_id].reward)
              s3 == [s2 EXCEPT !.in_optional = None]
          IN  Reply(send_room(s3, OPTIONALS[opt_id].back_to), "optional_solved")

\* faulty variant of handle_room4_sequence: the second answer ends the room
handle_room4_sequence_short(state, txt) ==
    LET step == state.s4_step
    IN  IF step < 0 \/ step > 2
        THEN Reply([state EXCEPT !.s4_step = 0], "s4_restart")
        ELSE
          LET s1 == inc(state, 4)
          IN  IF txt # EXPECTED_S4[step + 1] THEN Reply(s1, "s4_retry")
              ELSE IF step = 0
              THEN Reply([s1 EXCEPT !.s4_step = 1], "s4_next")
              ELSE
                LET s2 == [s1 EXCEPT !.s4_step = 3]
                    s3 == add_item(s2, ROOMS[4].item)
                IN  Reply(send_room(s3, 5), "solved")

handle_room4_sequence(state, txt) ==
    LET step == state.s4_step
    IN  IF step < 0 \/ step > 2
        THEN Reply([state EXCEPT !.s4_step = 0], "s4_restart")
        ELSE
          LET s1 == inc(state, 4)
          IN  IF txt # EXPECTED_S4[step + 1] THEN Reply(s1, "s4_retry")
              ELSE IF step = 0
              THEN Reply([s1 EXCEPT !.s4_step = 1], "s4_next")
              ELSE IF step = 1
              THEN Reply([s1 EXCEPT !.s4_step = 2], "s4_next")
              ELSE
                LET s2 == [s1 EXCEPT !.s4_step = 3]
                    s3 == add_item(s2, ROOMS[4].item)
                IN  Reply(send_room(s3, 5), "solved")

\* faulty variant of RoomText: the joker is spent before the answer is judged
RoomText_spends(state, raw, txt, t) ==
    LET room == state.room
        s1 == inc(state, room)
        v == IF room = 10
             THEN validate_room_10(raw, s1.inventory, s1.jokers)
             ELSE <<txt \in NormAnswers[room], FALSE>>
        ok == v[1]
        used_joker == v[2]
        s2 == IF room = 10 /\ used_joker
              THEN [s1 EXCEPT !.jokers = IF @ - 1 < 0 THEN 0 ELSE @ - 1]
              ELSE s1
    IN  IF ~ok THEN Reply(s2, "retry")
        ELSE
          LET s3 == add_item(s2, ROOMS[room].item)
          IN  IF room = 10
              THEN LET s4 == [s3 EXCEPT !.completed = TRUE]
                   IN  [state |-> s4, tag |-> "final", kb |-> {},
                        stats |-> <<compute_score(s4, t)>>]
              ELSE IF room \in DOMAIN OPTIONAL_OFFER_POINTS
              THEN [state |-> s3, tag |-> "offer",
                    kb |-> offer_optional(OPTIONAL_OFFER_POINTS[room][1],
                                          OPTIONAL_OFFER_POINTS[room][2]),
                    stats |-> NoStats]
              ELSE Reply(send_room(s3, room + 1), "solved")

\* the general room validation of on_text (lines 701-746)
RoomText(state, raw, txt, t) ==
    LET room == state.room
        s1 == inc(state, room)
        v == IF room = 10
             THEN validate_room_10(raw, s1.inventory, s1.jokers)
             ELSE <<txt \in NormAnswers[room], FALSE>>
        ok == v[1]
        used_joker == v[2]
    IN  IF ~ok THEN Reply(s1, "retry")
        ELSE
          LET s2 == IF room = 10 /\ used_joker
                    THEN [s1 EXCEPT !.jokers = IF @ - 1 < 0 THEN 0 ELSE @ - 1]
                    ELSE s1
              s3 == add_item(s2, ROOMS[room].item)
          IN  IF room = 10
              THEN LET s4 == [s3 EXCEPT !.completed = TRUE]
                   IN  [state |-> s4, tag |-> "final", kb |-> {},
                        stats |-> <<compute_score(s4, t)>>]
              ELSE IF room \in DOMAIN OPTIONAL_OFFER_POINTS
              THEN [state |-> s3, tag |-> "offer",
                    kb |-> offer_optional(OPTIONAL_OFFER_POINTS[room][1],
                                          OPTIONAL_OFFER_POINTS[room][2]),
                    stats |-> NoStats]
              ELSE Reply(send_room(s3, room + 1), "solved")

\* faulty variant of OnText: a completed record is not turned away
OnText_replays(state, raw, t) ==
    LET txt == NormText[raw]
    IN  IF state.mode = None THEN Reply(state, "mode_prompt")
        ELSE IF state.in_optional # None THEN OptionalText(state, txt)
        ELSE IF state.room = 0 THEN Reply(state, "not_started")
        ELSE IF state.room = 4 THEN handle_room4_sequence(state, txt)
        ELSE RoomText(state, raw, txt, t)

\* faulty variant of OnText: room 0 is turned away before the optional is read
OnText_room0_first(state, raw, t) ==
    LET txt == NormText[raw]
    IN  IF state.mode = None THEN Reply(state, "mode_prompt")
        ELSE IF state.completed THEN Reply(state, "already_completed")
        ELSE IF state.room = 0 THEN Reply(state, "not_started")
        ELSE IF state.in_optional # None THEN OptionalText(state, txt)
        ELSE IF state.room = 4 THEN handle_room4_sequence(state, txt)
        ELSE RoomText(state, raw, txt, t)

OnText(state, raw, t) ==
    LET txt == NormText[raw]
    IN  IF state.mode = None THEN Reply(state, "mode_prompt")
        ELSE IF state.completed THEN Reply(state, "already_completed")
        ELSE IF state.in_optional # None THEN OptionalText(state, txt)
        ELSE IF state.room = 0 THEN Reply(state, "not_started")
        ELSE IF state.room = 4 THEN handle_room4_sequence(state, txt)
        ELSE RoomText(state, raw, txt, t)

(* --------------------------------------------------------------- on_button *)
ModeRecord(mode, t) ==
    [init_state(t) EXCEPT !.mode = mode, !.start_ts = t, !.room = 1]

\* faulty variant of OptEnter: a completed optional can be entered again
OptEnter_unchecked(state, opt_id) ==
    Reply([state EXCEPT !.in_optional = opt_id], "optional_prompt")

\* the opt_enter_ branch of on_button (lines 595-604)
OptEnter(state, opt_id) ==
    IF opt_id \in state.optional_done THEN Reply(state, "optional_already_done")
    ELSE Reply([state EXCEPT !.in_optional = opt_id], "optional_prompt")

\* faulty variant of OptSkip: the skip also leaves the optional
OptSkip_leaves(state, next_room) ==
    Reply(send_room([state EXCEPT !.in_optional = None], next_room), "room")

\* the opt_skip_ branch of on_button (lines 606-610)
OptSkip(state, next_room) == Reply(send_room(state, next_room), "room")

(* ------------------------------------------ handlers between their sends *)
\* A handler runs up to an awaited send, waits for it, and runs on.  These
\* give the record at each send of a handler call, in order; the record at
\* the last send is the record the call leaves.

\* the in_optional branch of on_text: reply(success), then send_room
OptionalTextSends(state, txt) ==
    LET opt_id == state.in_optional
    IN  IF txt \notin NormOptAnswers[opt_id] THEN <<state>>
        ELSE
          LET s1 == [state EXCEPT !.optional_done = @ \cup {opt_id}]
              s2 == apply_reward(s1, OPTIONALS[opt_id].reward)
              s3 == [s2 EXCEPT !.in_optional = None]
          IN  <<s3, send_room(s3, OPTIONALS[opt_id].back_to)>>

\* handle_room4_sequence: on the third answer two replies, then send_room(5)
Room4Sends(state, txt) ==
    LET step == state.s4_step
    IN  IF step < 0 \/ step > 2 THEN <<[state EXCEPT !.s4_step = 0]>>
        ELSE
          LET s1 == inc(state, 4)
          IN  IF txt # EXPECTED_S4[step + 1] THEN <<s1>>
              ELSE IF step = 0 THEN <<[s1 EXCEPT !.s4_step = 1]>>
              ELSE IF step = 1 THEN <<[s1 EXCEPT !.s4_step = 2]>>
              ELSE
                LET s3 == add_item([s1 EXCEPT !.s4_step = 3], ROOMS[4].item)
                IN  <<s3, s3, send_room(s3, 5)>>

\* the general room validation: reply(success), then the final report, the
\* offer or send_room
RoomTextSends(state, raw, txt) ==
    LET room == state.room
        s1 == inc(state, room)
        v == IF room = 10
             THEN validate_room_10(raw, s1.inventory, s1.jokers)
             ELSE <<txt \in NormAnswers[room], FALSE>>
    IN  IF ~v[1] THEN <<s1>>
        ELSE
          LET s2 == IF room = 10 /\ v[2]
                    THEN [s1 EXCEPT !.jokers = IF @ - 1 < 0 THEN 0 ELSE @ - 1]
                    ELSE s1
              s3 == add_item(s2, ROOMS[room].item)
          IN  IF room = 10 THEN <<s3, [s3 EXCEPT !.completed = TRUE]>>
              ELSE IF room \in DOMAIN OPTIONAL_OFFER_POINTS THEN <<s3, s3>>
              ELSE <<s3, send_room(s3, room + 1)>>

OnTextSends(state, raw) ==
    LET txt == NormText[raw]
    IN  IF state.mode = None THEN <<state>>
        ELSE IF state.completed THEN <<state>>
        ELSE IF state.in_optional # None THEN OptionalTextSends(state, txt)
        ELSE IF state.room = 0 THEN <<state>>
        ELSE IF state.room = 4 THEN Room4Sends(state, txt)
        ELSE RoomTextSends(state, raw, txt)

(* ---------------------------------------------------------------- actions *)
Keys == Users \cup {"chat"}

\* the reply of a handler: its keyboard joins the chat
Emit(r) ==
    /\ shown' = shown \cup r.kb
    /\ keyboard' = r.kb

\* a handler that runs st(context), leaves r.state and replies
Handle(u, r) ==
    /\ Store(u, r.state, BeganOf(u))
    /\ Emit(r)
    /\ UNCHANGED <<chat_type, now, running>>

\* an input of the straight line of play, or one that uses the budget
Budget(straight) ==
    IF straight THEN extra' = extra
    ELSE extra < MaxExtra /\ extra' = extra + 1

\* pressing a button the chat shows
Press(b) ==
    /\ b \in shown
    /\ Budget(b \in keyboard)

cmd_start(u) ==
    /\ Emit(Reply(<<>>, "intro"))
    /\ UNCHANGED <<user_data, chat_data, chat_type, now, began, extra, running>>

cmd_reiniciar(u) ==
    /\ Emit(Reply(<<>>, "restart_prompt"))
    /\ UNCHANGED <<user_data, chat_data, chat_type, now, began, extra, running>>

cmd_inventario(u) ==
    /\ Handle(u, Reply(st(u), "inventory"))
    /\ UNCHANGED extra

StatusReply(state, t) ==
    [state |-> state, tag |-> "status", kb |-> {},
     stats |-> <<compute_score(state, t)>>]

cmd_estado(u) ==
    /\ Handle(u, StatusReply(st(u), now))
    /\ UNCHANGED extra

cmd_pista(u) ==
    LET state == st(u)
        r == CmdPista(state)
    IN  /\ IF r.state = state THEN UNCHANGED extra
           ELSE /\ state.hints_used[state.room] < MaxHintReq
                /\ Budget(state.hints_used[state.room] > 0)
        /\ Handle(u, r)

on_text(u, raw) ==
    LET state == st(u)
        r == OnText(state, raw, now)
    IN  /\ Budget(\/ r.state = state
                  \/ [r.state EXCEPT !.attempts = state.attempts] # state)
        /\ Handle(u, r)

mode_individual(u) ==
    /\ user_data' = [user_data EXCEPT ![u] = <<ModeRecord(MODE_INDIVIDUAL, now)>>]
    /\ began' = [began EXCEPT ![u] = now]
    /\ Emit([kb |-> {BtnEnter1}])
    /\ UNCHANGED <<chat_data, chat_type, now, extra, running>>

mode_group(u) ==
    /\ IF chat_type = "private"
       THEN /\ Emit(Reply(<<>>, "group_only"))
            /\ UNCHANGED <<user_data, chat_data, began>>
       ELSE /\ chat_data' = <<ModeRecord(MODE_GROUP, now)>>
            /\ began' = [began EXCEPT !["chat"] = now]
            /\ Emit([kb |-> {BtnEnter1}])
            /\ UNCHANGED user_data
    /\ UNCHANGED <<chat_type, now, extra, running>>

restart_yes(u) ==
    /\ Store(u, restart_state(st(u).mode), now)
    /\ Emit(Reply(<<>>, "restarted"))
    /\ UNCHANGED <<chat_type, now, extra, running>>

restart_no(u) ==
    /\ Emit(Reply(<<>>, "not_restarted"))
    /\ UNCHANGED <<user_data, chat_data, chat_type, now, began, extra, running>>

enter_1(u) ==
    /\ Press(BtnEnter1)
    /\ Handle(u, Reply(send_room(st(u), 1), "room"))

opt_enter(u, opt_id) ==
    /\ Press(BtnOptEnter(opt_id))
    /\ Handle(u, OptEnter(st(u), opt_id))

opt_skip(u, opt_id, next_room) ==
    /\ Press(BtnOptSkip(opt_id, next_room))
    /\ Handle(u, OptSkip(st(u), next_room))

\* on_button: the branch taken by the callback data
on_button(u) ==
    \/ mode_individual(u)
    \/ mode_group(u)
    \/ restart_yes(u)
    \/ restart_no(u)
    \/ enter_1(u)
    \/ \E o \in OptIds : opt_enter(u, o)
    \/ \E o \in OptIds : \E n \in RoomIds : opt_skip(u, o, n)

Tick ==
    /\ now < MaxTicks * TickSec
    /\ now' = now + TickSec
    /\ UNCHANGED <<user_data, chat_data, chat_type, shown, keyboard, began, extra,
                   running>>

Init ==
    /\ user_data = [u \in Users |-> <<>>]
    /\ chat_data = <<>>
    /\ chat_type = "private"
    /\ now = 0
    /\ shown = {}
    /\ keyboard = {}
    /\ began = [k \in Keys |-> NoKey]
    /\ extra = 0
    /\ running = <<>>

Next ==
    \/ \E u \in Participants : cmd_start(u)
    \/ \E u \in Participants : cmd_reiniciar(u)
    \/ \E u \in Participants : cmd_inventario(u)
    \/ \E u \in Participants : cmd_estado(u)
    \/ \E u \in Participants : cmd_pista(u)
    \/ \E u \in Participants : on_button(u)
    \/ \E u \in Participants : \E raw \in RawTexts : on_text(u, raw)
    \/ Tick

Spec == Init /\ [][Next]_vars

(* ------------------------------------------------------------ group chat *)
\* the same handlers in a group chat: both users send updates, and
\* mode_group creates the record of the chat
InitGroup ==
    /\ user_data = [u \in Users |-> <<>>]
    /\ chat_data = <<>>
    /\ chat_type = "group"
    /\ now = 0
    /\ shown = {}
    /\ keyboard = {}
    /\ began = [k \in Keys |-> NoKey]
    /\ extra = MaxExtra - 1
    /\ running = <<>>

\* the texts submitted in the group chat: the answers of rooms 1 to 3 and
\* of optional A
GroupTexts == {raw_r1, ans_b, raw_desierto, ans_escuchar}

\* the attempts counted so far in the records of the chat and of its users
GroupAttempts ==
    (IF chat_data = <<>> THEN 0 ELSE count_total_attempts(chat_data[1]))
    + (IF user_data["u1"] = <<>> THEN 0
       ELSE count_total_attempts(user_data["u1"][1]))
    + (IF user_data["u2"] = <<>> THEN 0
       ELSE count_total_attempts(user_data["u2"][1]))

NextGroup ==
    \/ \E u \in Participants : cmd_start(u)
    \/ \E u \in Participants : cmd_reiniciar(u)
    \/ \E u \in Participants : cmd_inventario(u)
    \/ \E u \in Participants : cmd_estado(u)
    \/ \E u \in Participants : cmd_pista(u)
    \/ \E u \in Participants : on_button(u)
    \/ \E u \in Participants : \E raw \in GroupTexts :
         GroupAttempts < MaxGroupAttempts /\ on_text(u, raw)

SpecGroup == InitGroup /\ [][NextGroup]_vars

(* ------------------------------------------------- updates, send by send *)
\* The same handlers in a group chat, one awaited send at a time: a send
\* returns or raises.  When it raises the call ends there (error_handler
\* logs the exception) and the record keeps what the call wrote so far.

\* faulty variant of Idle: a second update is taken while a call waits
Idle_concurrent == Len(running) < 2

\* the Application is built without concurrent_updates and the handlers block:
\* an update is taken when no handler call is in flight
Idle == running = <<>>

\* write container content c under key k
SetCont(k, c) ==
    IF k = "chat"
    THEN chat_data' = c /\ user_data' = user_data
    ELSE user_data' = [user_data EXCEPT ![k] = c] /\ chat_data' = chat_data

\* a handler call starts on container k: it runs to its first send; sends
\* holds the content of the container at each of its sends
Begin(k, sends, kb) ==
    /\ Idle
    /\ SetCont(k, Head(sends))
    /\ running' = Append(running, [key |-> k, before |-> Cont(k),
                                   todo |-> Tail(sends), kb |-> kb])
    /\ UNCHANGED <<chat_type, now, shown, keyboard, began>>

\* the records rs as container contents
Conts(rs) == [i \in DOMAIN rs |-> <<rs[i]>>]

begin_text(u, raw) ==
    LET state == st(u)
        r == OnText(state, raw, now)
    IN  /\ Budget(\/ r.state = state
                  \/ [r.state EXCEPT !.attempts = state.attempts] # state)
        /\ Begin(get_container(u), Conts(OnTextSends(state, raw)), r.kb)

begin_pista(u) ==
    LET state == st(u)
        r == CmdPista(state)
    IN  /\ IF r.state = state THEN UNCHANGED extra
           ELSE /\ state.hints_used[state.room] < MaxHintReq
                /\ Budget(state.hints_used[state.room] > 0)
        /\ Begin(get_container(u), <<<<r.state>>>>, {})

\* on_button: q.answer() is the first send of every branch
begin_mode_individual(u) ==
    /\ Begin(u, <<user_data[u], <<ModeRecord(MODE_INDIVIDUAL, now)>>>>,
             {BtnEnter1})
    /\ UNCHANGED extra

begin_mode_group(u) ==
    /\ IF chat_type = "private"
       THEN Begin(u, <<user_data[u], user_data[u]>>, {})
       ELSE Begin("chat", <<chat_data, <<ModeRecord(MODE_GROUP, now)>>>>,
                  {BtnEnter1})
    /\ UNCHANGED extra

begin_restart_yes(u) ==
    /\ Begin(get_container(u),
             <<Cont(get_container(u)), <<restart_state(st(u).mode)>>>>, {})
    /\ UNCHANGED extra

begin_enter_1(u) ==
    /\ Press(BtnEnter1)
    /\ Begin(get_container(u),
             <<Cont(get_container(u)), <<send_room(st(u), 1)>>>>, {})

begin_opt_enter(u, opt_id) ==
    /\ Press(BtnOptEnter(opt_id))
    /\ Begin(get_container(u),
             <<Cont(get_container(u)), <<OptEnter(st(u), opt_id).state>>>>, {})

begin_opt_skip(u, opt_id, next_room) ==
    /\ Press(BtnOptSkip(opt_id, next_room))
    /\ Begin(get_container(u),
             <<Cont(get_container(u)), <<OptSkip(st(u), next_room).state>>>>,
             {})

\* running without its i-th call
Without(i) == [j \in 1..(Len(running) - 1) |->
                 IF j < i THEN running[j] ELSE running[j + 1]]

\* the send call i waits on returns: the call runs to its next send, or ends
send_ok(i) ==
    LET h == running[i]
    IN  /\ IF h.todo = <<>>
           THEN /\ running' = Without(i)
                /\ shown' = shown \cup h.kb
                /\ keyboard' = h.kb
                /\ UNCHANGED <<user_data, chat_data>>
           ELSE /\ SetCont(h.key, Head(h.todo))
                /\ running' = [running EXCEPT ![i].todo = Tail(@)]
                /\ UNCHANGED <<shown, keyboard>>
        /\ UNCHANGED <<chat_type, now, began, extra>>

\* the send call i waits on raises: the call ends, error_handler logs
send_raises(i) ==
    /\ Budget(FALSE)
    /\ running' = Without(i)
    /\ UNCHANGED <<user_data, chat_data, chat_type, now, shown, keyboard,
                   began>>

NextSteps ==
    \/ \E u \in Participants : \E raw \in RawTexts : begin_text(u, raw)
    \/ \E u \in Participants : begin_pista(u)
    \/ \E u \in Participants : begin_mode_individual(u)
    \/ \E u \in Participants : begin_mode_group(u)
    \/ \E u \in Participants : begin_restart_yes(u)
    \/ \E u \in Participants : begin_enter_1(u)
    \/ \E u \in Participants : \E o \in OptIds : begin_opt_enter(u, o)
    \/ \E u \in Participants : \E o \in OptIds : \E n \in RoomIds :
         begin_opt_skip(u, o, n)
    \/ \E i \in DOMAIN running : send_ok(i)
    \/ \E i \in DOMAIN running : send_raises(i)

\* a private chat
SpecSteps == Init /\ [][NextSteps]_vars

\* the texts submitted send by send in the group chat: the answers of rooms
\* 1 and 2
StepTexts == {raw_r1, ans_b}

NextStepsGroup ==
    \/ \E u \in Participants : \E raw \in StepTexts :
         GroupAttempts < MaxGroupAttempts /\ begin_text(u, raw)
    \/ \E u \in Participants : begin_mode_individual(u)
    \/ \E u \in Participants : begin_mode_group(u)
    \/ \E u \in Participants : begin_restart_yes(u)
    \/ \E u \in Participants : begin_enter_1(u)
    \/ \E i \in DOMAIN running : send_ok(i)
    \/ \E i \in DOMAIN running : send_raises(i)

\* a group chat
SpecStepsGroup == InitGroup /\ [][NextStepsGroup]_vars

(* ------------------------------------------------ cmd_pista on a record *)
\* the records a hint scenario starts from: an individual game in a main
\* room, no hint used yet, with some free-hint credits and some penalty
PistaRecords ==
    {[ModeRecord(MODE_INDIVIDUAL, 0) EXCEPT !.room = n, !.free_hints = f,
                                            !.penalty_sec = p] :
       n \in RoomIds, f \in 0..MaxCredits, p \in {0, 30}}

InitPista ==
    /\ \E rec \in PistaRecords :
         user_data = [u \in Users |-> IF u = "u1" THEN <<rec>> ELSE <<>>]
    /\ chat_data = <<>>
    /\ chat_type = "private"
    /\ now = 0
    /\ shown = {}
    /\ keyboard = {}
    /\ began = [k \in Keys |-> IF k = "u1" THEN 0 ELSE NoKey]
    /\ extra = 0
    /\ running = <<>>

NextPista == cmd_pista("u1")

SpecPista == InitPista /\ [][NextPista]_vars

(* ------------------------------------------------------------ observers *)
\* a restart was confirmed, or a mode was selected
IsReset == \E u \in Participants :
              restart_yes(u) \/ mode_individual(u) \/ mode_group(u)

(* C1: across any sequence of events applied to one Session Record (mode
   selection, texts, buttons including those of offers shown earlier, hint
   requests) currentRoom never decreases, except by a confirmed restart or a
   mode selection. *)
C1_RoomNeverDecreases ==
    [][\A k \in Keys :
         (Cont(k) # <<>> /\ Cont(k)' # <<>> /\ Rec(k)'.room < Rec(k).room)
           => IsReset]_vars

(* ------------------------------------------------------- claim vocabulary *)
\* mode set, game not completed, no optional active
Playing(state) ==
    state.mode # None /\ ~state.completed /\ state.in_optional = None

\* the rooms solved by one accepted answer, and the checkpoints among them
AnswerRooms == {1, 2, 3, 5, 6, 7, 8, 9}
Checkpoints == {3, 6, 8}

\* a record some container holds
Stored(k) == Cont(k) # <<>>

(* C2 as claimed: for n in {1,2,3,5,6,7,8,9}, with mode set, not completed,
   no optional active and currentRoom = n, a text whose normalized form is
   an accepted answer of room n sets currentRoom to n+1 (checkpoints 3, 6, 8:
   keeps n and issues the offer) and adds exactly one item, the reward of
   room n, to the inventory.  Stated for the records reached by straight
   play (no button of an earlier keyboard pressed, extra = 0). *)
C2_AnswerAddsExactlyOneItem ==
    \A u \in Participants : \A raw \in RawTexts :
      LET S == st(u)
          r == OnText(S, raw, now)
      IN  (extra = 0 /\ Playing(S) /\ S.room \in AnswerRooms
             /\ NormText[raw] \in ROOMS[S.room].answers)
          => /\ r.state.room =
                  IF S.room \in Checkpoints THEN S.room ELSE S.room + 1
             /\ S.room \in Checkpoints =>
                  r.kb = {BtnOptEnter(OPTIONAL_OFFER_POINTS[S.room][1]),
                          BtnOptSkip(OPTIONAL_OFFER_POINTS[S.room][1],
                                     S.room + 1)}
             /\ r.state.inventory = S.inventory \cup {ROOMS[S.room].item}
             /\ Cardinality(r.state.inventory) = Cardinality(S.inventory) + 1

(* C2 amended: as C2, but the reward is added once: the inventory gains
   exactly one item when it does not hold the reward of room n yet, and is
   unchanged when it already holds it (a checkpoint room answered again
   before the offer is answered). *)
C2_AnswerAddsReward ==
    \A u \in Participants : \A raw \in RawTexts :
      LET S == st(u)
          r == OnText(S, raw, now)
      IN  (Playing(S) /\ S.room \in AnswerRooms
             /\ NormText[raw] \in ROOMS[S.room].answers)
          => /\ r.state.room =
                  IF S.room \in Checkpoints THEN S.room ELSE S.room + 1
             /\ S.room \in Checkpoints =>
                  r.kb = {BtnOptEnter(OPTIONAL_OFFER_POINTS[S.room][1]),
                          BtnOptSkip(OPTIONAL_OFFER_POINTS[S.room][1],
                                     S.room + 1)}
             /\ r.state.inventory = S.inventory \cup {ROOMS[S.room].item}
             /\ Cardinality(r.state.inventory) =
                  Cardinality(S.inventory)
                  + (IF ROOMS[S.room].item \in S.inventory THEN 0 ELSE 1)

\* room 3 was just solved by its first answer: reward held, offer A issued
C2_Witness ==
    /\ Stored("u1")
    /\ Rec("u1").room = 3
    /\ Rec("u1").inventory = {"RENUNCIA", "DESAPEGO", "SOLEDAD"}
    /\ Rec("u1").attempts[3] = 1
    /\ keyboard = {BtnOptEnter("A"), BtnOptSkip("A", 4)}

(* C3: in room 10, on the unique normalized tokens of the comma-separated
   input: with 3 or more tokens the submission succeeds iff the first three
   are in the inventory, and jokers is unchanged; with exactly 2 it succeeds
   iff jokers > 0 beforehand and both are in the inventory, and then jokers
   decreases by exactly one; every other submission fails and leaves jokers
   unchanged. *)
C3_Room10Validation ==
    /\ UniqueOf[raw_three] = <<normalize(str_RENUNCIA), normalize(str_ORACION),
                               normalize(str_SABIDURIA)>>
    /\ UniqueOf[raw_dup] = <<normalize(str_RENUNCIA), normalize(str_DESAPEGO)>>
    /\ \A u \in Participants : \A raw \in RawTexts :
         LET S == st(u)
             r == OnText(S, raw, now)
             tokens == UniqueOf[raw]
             Held(k) == \E i \in S.inventory : NormItem[i] = tokens[k]
             success == r.state.completed
         IN  (Playing(S) /\ S.room = 10)
             => /\ Len(tokens) >= 3 =>
                     /\ success <=> (Held(1) /\ Held(2) /\ Held(3))
                     /\ r.state.jokers = S.jokers
                /\ Len(tokens) = 2 =>
                     /\ success <=> (S.jokers > 0 /\ Held(1) /\ Held(2))
                     /\ r.state.jokers =
                          IF success THEN S.jokers - 1 ELSE S.jokers
                /\ Len(tokens) < 2 =>
                     /\ ~success
                     /\ r.state.jokers = S.jokers

\* the game was completed by two items and the joker of optional C
C3_Witness ==
    /\ Stored("u1")
    /\ Rec("u1").completed
    /\ "C" \in Rec("u1").optional_done
    /\ Rec("u1").jokers = 0
    /\ Rec("u1").attempts[10] = 1

(* C4 as claimed: for a hint request in a main room, the Nth of that room:
   with freeHints > 0 it adds no penalty and freeHints decreases by one,
   otherwise it adds exactly 30*N to penaltySeconds and leaves freeHints
   unchanged. *)
C4_HintCost ==
    \A u \in Participants :
      LET S == st(u)
          r == CmdPista(S)
          N == S.hints_used[S.room] + 1
      IN  (Playing(S) /\ S.room \in RoomIds)
          => IF S.free_hints > 0
             THEN /\ r.state.penalty_sec = S.penalty_sec
                  /\ r.state.free_hints = S.free_hints - 1
             ELSE /\ r.state.penalty_sec = S.penalty_sec + 30 * N
                  /\ r.state.free_hints = S.free_hints

(* C4 amended: as C4, for a request the room still has a hint for (N is at
   most the number of hints of the room, 2 for every room); a later request
   reports that no hint is left, adds no penalty and takes no credit. *)
C4_DeliveredHintCost ==
    \A u \in Participants :
      LET S == st(u)
          r == CmdPista(S)
          N == S.hints_used[S.room] + 1
      IN  (Playing(S) /\ S.room \in RoomIds)
          => IF N > ROOMS[S.room].hints
             THEN /\ r.tag = "no_more_hints"
                  /\ r.state.penalty_sec = S.penalty_sec
                  /\ r.state.free_hints = S.free_hints
             ELSE IF S.free_hints > 0
             THEN /\ r.state.penalty_sec = S.penalty_sec
                  /\ r.state.free_hints = S.free_hints - 1
             ELSE /\ r.state.penalty_sec = S.penalty_sec + 30 * N
                  /\ r.state.free_hints = S.free_hints

\* room 4 after optional A: the first hint took the credit, the second cost 60
C4_Witness ==
    /\ Stored("u1")
    /\ Rec("u1").room = 4
    /\ "A" \in Rec("u1").optional_done
    /\ Rec("u1").hints_used[4] = 2
    /\ Rec("u1").free_hints = 0
    /\ Rec("u1").penalty_sec = 60

\* the text is handled as if no optional were active
MainValidated(state, raw) ==
    OnText(state, raw, now) = OnText([state EXCEPT !.in_optional = None], raw, now)

(* C5: once an optional is entered (activeOptional set) every text is
   compared only against that optional's accepted answers, until the optional
   is solved or the player presses the offer's skip choice: after a skip,
   text is validated against the main room again. *)
C5_SkipLeavesOptional ==
    \A u \in Participants :
      LET S == st(u)
      IN  (S.mode # None /\ ~S.completed /\ S.in_optional # None)
          => /\ \A raw \in RawTexts :
                  IF NormText[raw] \in OPTIONALS[S.in_optional].answers
                  THEN OnText(S, raw, now).state.in_optional = None
                  ELSE OnText(S, raw, now).state = S
             /\ \A b \in shown :
                  (b.kind = "opt_skip" /\ b.opt = S.in_optional)
                  => \A raw \in RawTexts :
                       MainValidated(OptSkip(S, b.next).state, raw)

(* C6: a confirmed restart leaves mode as it was and sets every other field
   to the value of a freshly created record: room 0, empty inventory,
   startTimestamp = now, penaltySeconds 0, empty hint and attempt maps,
   completed false, empty optionalDone, no activeOptional, freeHints 0,
   jokers 0, subPuzzleStep 0. *)
C6_RestartIsFresh ==
    [][\A u \in Participants :
         restart_yes(u)
           => Rec(get_container(u))' = [init_state(now) EXCEPT !.mode = st(u).mode]]_vars

\* max(0, x)
Max0(x) == IF x < 0 THEN 0 ELSE x

\* the score of section 4.3, on the record of key k, whose startTimestamp is
\* the time the record was created, reset or given its mode
ClaimedScore(state, startTimestamp, t) ==
    Max0(1000 - ((t - startTimestamp) + state.penalty_sec)
         - 40 * SumTo(state.hints_used, 10) - 5 * SumTo(state.attempts, 10)
         + 50 * Cardinality(state.optional_done)
         + (IF state.completed THEN 200 ELSE 0))

(* C7: for every session record and every now, the score is
   max(0, 1000 - timeSec - 40*hintsUsed - 5*attempts + 50*|optionalDone|
          + (200 if completed else 0)),
   timeSec = (now - startTimestamp) + penaltySeconds; the status report and
   the final report at completion carry this score; it is never negative. *)
C7_ScoreFormula ==
    \A u \in Participants :
      LET S == st(u)
          start == BeganOf(u)
      IN  /\ compute_score(S, now).score = ClaimedScore(S, start, now)
          /\ compute_score(S, now).score >= 0
          /\ StatusReply(S, now).stats[1].score = ClaimedScore(S, start, now)
          /\ \A raw \in RawTexts :
               LET r == OnText(S, raw, now)
               IN  r.tag = "final"
                   => r.stats[1].score = ClaimedScore(r.state, start, now)

(* C8: solving a checkpoint room (3, 6, 8) leaves currentRoom there, and no
   text or hint request moves it while the offer is unanswered; pressing skip
   sets currentRoom to the designated resume room (4, 7, 9), adds nothing to
   optionalDone, applies no reward and does not change activeOptional. *)
C8_CheckpointSkip ==
    \A u \in Participants :
      LET S == st(u)
      IN  /\ (Playing(S) /\ S.room \in Checkpoints)
              => /\ \A raw \in RawTexts : OnText(S, raw, now).state.room = S.room
                 /\ CmdPista(S).state.room = S.room
          /\ \A b \in shown :
               b.kind = "opt_skip"
               => LET r == OptSkip(S, b.next)
                  IN  /\ \E n \in Checkpoints :
                           /\ OPTIONAL_OFFER_POINTS[n] = <<b.opt, b.next>>
                           /\ b.next = n + 1
                      /\ r.state.room = b.next
                      /\ r.state.optional_done = S.optional_done
                      /\ r.state.free_hints = S.free_hints
                      /\ r.state.jokers = S.jokers
                      /\ r.state.penalty_sec = S.penalty_sec
                      /\ r.state.in_optional = S.in_optional
                      /\ r.state.inventory = S.inventory

\* room 8 was solved and its offer skipped: room 9 without optional C
C8_Witness ==
    /\ Stored("u1")
    /\ Rec("u1").room = 9
    /\ "COMPASION" \in Rec("u1").inventory
    /\ "C" \notin Rec("u1").optional_done
    /\ Rec("u1").in_optional = None
    /\ Rec("u1").jokers = 0
    /\ extra = 0

(* C9: the reward of an optional room (A: freeHints +1, B: penaltySeconds
   -60 floored at 0, C: jokers +1) is applied in the step that puts the
   optional into optionalDone and in no other step; short of a reset the
   optional stays in optionalDone and cannot be entered again. *)
C9_RewardOnce ==
    [][\A k \in Keys :
         (Stored(k) /\ Stored(k)')
         => LET a == Rec(k)
                b == Rec(k)'
                Solved(o) == o \notin a.optional_done /\ o \in b.optional_done
            IN  /\ b.free_hints > a.free_hints => Solved("A")
                /\ b.jokers > a.jokers => Solved("C")
                /\ (b.penalty_sec < a.penalty_sec /\ ~IsReset) => Solved("B")
                /\ Solved("A") => b.free_hints = a.free_hints + 1
                /\ Solved("B") => b.penalty_sec = Max0(a.penalty_sec - 60)
                /\ Solved("C") => b.jokers = a.jokers + 1
                /\ \A o \in OptIds :
                     (o \in a.optional_done /\ ~IsReset)
                     => o \in b.optional_done /\ b.in_optional # o]_vars

\* optional B was solved after a paid hint: 30 seconds of penalty removed
C9_Witness ==
    /\ Stored("u1")
    /\ "B" \in Rec("u1").optional_done
    /\ Rec("u1").room = 7
    /\ Rec("u1").penalty_sec = 0
    /\ SumTo(Rec("u1").hints_used, 10) = 1
    /\ Rec("u1").free_hints = 0

(* C10: in every reachable state activeOptional is unset or one of A, B, C,
   and is not a member of optionalDone. *)
C10_ActiveOptionalNotDone ==
    \A k \in Keys :
      Stored(k)
      => /\ Rec(k).in_optional \in OptIds \cup {None}
         /\ Rec(k).in_optional # None
              => Rec(k).in_optional \notin Rec(k).optional_done

\* inside optional B with optional A already done
C10_Witness ==
    /\ Stored("u1")
    /\ Rec("u1").in_optional = "B"
    /\ Rec("u1").optional_done = {"A"}

(* C11: completed becomes true only by a text that passes the validator of
   room 10 while currentRoom = 10; once true it stays true until a reset
   (confirmed restart or mode selection); and while it is true no text and no
   hint request changes the record. *)
C11_CompletedIsTerminal ==
    [][\A k \in Keys :
         Stored(k)'
         => LET b == Rec(k)'
            IN  /\ ~Stored(k) => ~b.completed
                /\ Stored(k)
                   => LET a == Rec(k)
                      IN  /\ (~a.completed /\ b.completed)
                             => /\ a.room = 10
                                /\ \E u \in Participants : \E raw \in RawTexts :
                                     /\ get_container(u) = k
                                     /\ on_text(u, raw)
                                     /\ validate_room_10(raw, a.inventory,
                                                         a.jokers)[1]
                          /\ (a.completed /\ ~IsReset) => b.completed
                          /\ a.completed
                             => /\ \A raw \in RawTexts :
                                     OnText(a, raw, now).state = a
                                /\ CmdPista(a).state = a]_vars

\* the game was completed by three items, no optional done
C11_Witness ==
    /\ Stored("u1")
    /\ Rec("u1").completed
    /\ Rec("u1").optional_done = {}
    /\ Rec("u1").room = 10

\* three consecutive hint requests on record S
Pista3(S) ==
    LET r1 == CmdPista(S)
        r2 == CmdPista(r1.state)
        r3 == CmdPista(r2.state)
    IN  <<r1, r2, r3>>

\* a record with two credits in a main room where no hint was used
TwoCredits(S) ==
    /\ Playing(S)
    /\ S.room \in RoomIds
    /\ S.free_hints = 2
    /\ S.hints_used[S.room] = 0

(* C16 as claimed: from a record with freeHints = 2 and no hint used in the
   current room, of three consecutive hint requests in that room the first
   and the second each add 0 penalty seconds and each take one credit, and
   the third adds exactly 90 seconds to penaltySeconds. *)
C16_ThirdHintCosts90 ==
    LET S == st("u1")
        r == Pista3(S)
    IN  TwoCredits(S)
        => /\ r[1].state.penalty_sec = S.penalty_sec
           /\ r[1].state.free_hints = 1
           /\ r[2].state.penalty_sec = S.penalty_sec
           /\ r[2].state.free_hints = 0
           /\ r[3].state.penalty_sec = S.penalty_sec + 90

(* C16 amended: as C16 for the first and the second request; the third finds
   no hint left (every room has two hints): it reports that, adds no penalty
   and takes no credit. *)
C16_ThirdHintUnavailable ==
    LET S == st("u1")
        r == Pista3(S)
    IN  TwoCredits(S)
        => /\ r[1].tag = "hint_free"
           /\ r[1].state.penalty_sec = S.penalty_sec
           /\ r[1].state.free_hints = 1
           /\ r[2].tag = "hint_free"
           /\ r[2].state.penalty_sec = S.penalty_sec
           /\ r[2].state.free_hints = 0
           /\ r[3].tag = "no_more_hints"
           /\ r[3].state.penalty_sec = S.penalty_sec
           /\ r[3].state.free_hints = 0

\* three requests were made in room 5 from two credits and no penalty
C16_Witness ==
    /\ Stored("u1")
    /\ Rec("u1").room = 5
    /\ Rec("u1").hints_used[5] = 3
    /\ Rec("u1").free_hints = 0
    /\ Rec("u1").penalty_sec = 0

(* C17: hintsUsedByRoom[r] counts only delivered hints: a request made when
   every hint of the room is consumed reports that none is left and changes
   nothing in the record, so hintsUsedByRoom[r] is at most the number of
   hints of room r and the hint term of the score charges delivered hints
   only. *)
C17_HintsUsedBounded ==
    /\ \A k \in Keys : \A n \in RoomIds :
         Stored(k) => Rec(k).hints_used[n] <= ROOMS[n].hints
    /\ \A u \in Participants :
         LET S == st(u)
         IN  (Playing(S) /\ S.room \in RoomIds
                /\ S.hints_used[S.room] >= ROOMS[S.room].hints)
             => /\ CmdPista(S).tag = "no_more_hints"
                /\ CmdPista(S).state = S

\* the record after the optional's success, as section 4.5 and 4.6 give it
OptionalSolved(S, o) ==
    LET back == CASE o = "A" -> 4 [] o = "B" -> 7 [] o = "C" -> 9
    IN  [S EXCEPT !.optional_done = @ \cup {o},
                  !.free_hints = IF o = "A" THEN @ + 1 ELSE @,
                  !.penalty_sec = IF o = "B" THEN Max0(@ - 60) ELSE @,
                  !.jokers = IF o = "C" THEN @ + 1 ELSE @,
                  !.in_optional = None,
                  !.room = back,
                  !.s4_step = IF back = 4 THEN 0 ELSE @]

(* C18: while activeOptional is set (mode set, game not completed), a text
   that matches none of the optional's accepted answers changes no field of
   the record, no attempt counter included; a matching one, in one step,
   adds the optional to optionalDone, applies its reward, clears
   activeOptional and sets currentRoom to the return room (A: 4, B: 7,
   C: 9). *)
C18_OptionalText ==
    \A u \in Participants : \A raw \in RawTexts :
      LET S == st(u)
          r == OnText(S, raw, now)
      IN  (S.mode # None /\ ~S.completed /\ S.in_optional # None)
          => IF NormText[raw] \in OPTIONALS[S.in_optional].answers
             THEN r.state = OptionalSolved(S, S.in_optional)
             ELSE r.state = S

\* optional A was solved before any hint was asked for: room 4, one credit
C18_Witness ==
    /\ Stored("u1")
    /\ Rec("u1").optional_done = {"A"}
    /\ Rec("u1").room = 4
    /\ Rec("u1").free_hints = 1
    /\ Rec("u1").in_optional = None
    /\ Rec("u1").s4_step = 0
    /\ Rec("u1").attempts[4] = 0

\* the expected answer of each step of room 4
ExpectedStep(step) ==
    CASE step = 0 -> ans_humildad [] step = 1 -> ans_pobreza
      [] step = 2 -> ans_confianza

(* C19: while currentRoom = 4 (mode set, not completed, no optional active)
   subPuzzleStep is 0, 1 or 2 and a text moves it by exactly one when its
   normalized form is the expected answer of the current step (humildad,
   pobreza, confianza) and leaves it otherwise; the reward of room 4 is
   granted and room 5 entered only on the step-2 match; every text counts
   exactly one attempt of room 4. *)
C19_Room4Sequence ==
    \A u \in Participants : \A raw \in RawTexts :
      LET S == st(u)
          r == OnText(S, raw, now).state
      IN  (Playing(S) /\ S.room = 4)
          => /\ S.s4_step \in 0..2
             /\ r.attempts = [S.attempts EXCEPT ![4] = @ + 1]
             /\ IF NormText[raw] = ExpectedStep(S.s4_step)
                THEN r.s4_step = S.s4_step + 1
                ELSE r.s4_step = S.s4_step
             /\ IF NormText[raw] = ExpectedStep(S.s4_step) /\ S.s4_step = 2
                THEN /\ r.room = 5
                     /\ r.inventory = S.inventory \cup {"FORTALEZA"}
                ELSE /\ r.room = 4
                     /\ r.inventory = S.inventory

\* room 4 was left by its third answer after three attempts
C19_Witness ==
    /\ Stored("u1")
    /\ Rec("u1").room = 5
    /\ Rec("u1").s4_step = 3
    /\ Rec("u1").attempts[4] = 3
    /\ "FORTALEZA" \in Rec("u1").inventory

\* the text is not an accepted answer of the main room of S
WrongAnswer(S, raw) ==
    IF S.room = 10
    THEN LET tokens == UniqueOf[raw]
             Held(k) == \E i \in S.inventory : NormItem[i] = tokens[k]
         IN  ~ \/ Len(tokens) >= 3 /\ Held(1) /\ Held(2) /\ Held(3)
               \/ Len(tokens) = 2 /\ S.jokers > 0 /\ Held(1) /\ Held(2)
    ELSE NormText[raw] \notin ROOMS[S.room].answers

(* C20: a wrong answer in a main room other than room 4 (mode set, not
   completed, no optional active) increments attemptsByRoom[currentRoom] by
   exactly one and changes nothing else; a failed submission of two tokens
   in room 10 does not spend a joker. *)
C20_WrongAnswerCountsOnly ==
    \A u \in Participants : \A raw \in RawTexts :
      LET S == st(u)
          r == OnText(S, raw, now).state
      IN  (Playing(S) /\ S.room \in RoomIds \ {4} /\ WrongAnswer(S, raw))
          => /\ r = [S EXCEPT !.attempts[S.room] = @ + 1]
             /\ r.jokers = S.jokers

\* a submission of two tokens failed in room 10 and the joker is still held
C20_Witness ==
    /\ Stored("u1")
    /\ Rec("u1").room = 10
    /\ ~Rec("u1").completed
    /\ Rec("u1").jokers = 1
    /\ Rec("u1").attempts[10] = 1

(* C12: no room event is accepted for a record whose mode was never set:
   while mode is unset currentRoom stays 0 and no text, button choice or
   hint request changes room, inventory, counters, penalties or credits. *)
C12_ModeUnsetIsIdle ==
    \A k \in Keys :
      (Stored(k) /\ Rec(k).mode = None)
      => /\ Rec(k).room = 0
         /\ Rec(k).inventory = {}
         /\ Rec(k).in_optional = None
         /\ Rec(k).attempts = ZeroMap
         /\ Rec(k).hints_used = ZeroMap
         /\ Rec(k).penalty_sec = 0
         /\ Rec(k).free_hints = 0
         /\ Rec(k).jokers = 0

\* the conversation has a Shared record whose mode is Shared
Shared == chat_data # <<>> /\ chat_data[1].mode = MODE_GROUP

\* the Individual record of player u, created if the event is its first
Own(u) == IF user_data[u] = <<>> THEN init_state(now) ELSE user_data[u][1]

\* the step is a text, hint, status, inventory, restart or offer-choice
\* event of u (or its room-1 button) and leaves in container c what the
\* handler makes of record rec
AppliedTo(u, rec, c) ==
    \/ \E raw \in GroupTexts :
         on_text(u, raw) /\ c = <<OnText(rec, raw, now).state>>
    \/ cmd_pista(u) /\ c = <<CmdPista(rec).state>>
    \/ (cmd_estado(u) \/ cmd_inventario(u)) /\ c = <<rec>>
    \/ restart_yes(u) /\ c = <<[init_state(NoKey) EXCEPT !.mode = rec.mode]>>
    \/ enter_1(u) /\ c = <<[rec EXCEPT !.room = 1]>>
    \/ \E o \in OptIds : opt_enter(u, o) /\ c = <<OptEnter(rec, o).state>>
    \/ \E o \in OptIds : \E n \in RoomIds :
         opt_skip(u, o, n) /\ c = <<OptSkip(rec, n).state>>

(* C13: a text, hint, status, inventory, restart or offer-choice event of a
   conversation is applied to the Shared record iff the conversation has a
   Shared record with mode Shared; otherwise it is applied to the Individual
   record of the player who sent it; the other records are left unchanged.
   Stated on the records a step changes: an Individual record changes only
   by its player's mode selection or, when there is no Shared record, by an
   event of that player; the record of the chat changes only by the group
   mode selection or, when it is Shared, by an event of a participant; no
   step changes two records. *)
C13_ScopeResolution ==
    [][/\ \A u \in Users :
            user_data'[u] # user_data[u]
            => /\ chat_data' = chat_data
               /\ \A v \in Users \ {u} : user_data'[v] = user_data[v]
               /\ \/ mode_individual(u)
                  \/ ~Shared /\ AppliedTo(u, Own(u), user_data'[u])
       /\ chat_data' # chat_data
            => /\ user_data' = user_data
               /\ \/ \E u \in Participants : mode_group(u)
                  \/ Shared /\ \E u \in Participants :
                                 AppliedTo(u, chat_data[1], chat_data')]_vars

\* the chat plays a Shared game in room 2 next to the Individual game of u1
C13_Witness ==
    /\ Shared
    /\ Rec("chat").room = 2
    /\ Rec("chat").inventory = {"RENUNCIA"}
    /\ Stored("u1")
    /\ Rec("u1").mode = MODE_INDIVIDUAL
    /\ Rec("u1").room = 2
    /\ ~Stored("u2")

\* the record a container content stands for: a container without a record
\* reads as a fresh one
RecordOf(c) == IF c = <<>> THEN init_state(now) ELSE c[1]

(* C14: if the processing of an event fails part-way (a send raises after
   some fields were written), the record of that scope key is left exactly
   as it was before the event: no partly applied mutation remains. *)
C14_FailedEventLeavesRecord ==
    [][\A i \in DOMAIN running : \A k \in Keys :
         (k = running[i].key /\ send_raises(i))
         => RecordOf(Cont(k)') = RecordOf(running[i].before)]_vars

(* C15: mutations of one record are serialized per scope key: while an
   event's handler call is between its first and its last mutation of a
   record, waiting on a send included, no other event reads the record (no
   other call starts on its key) or writes it (the record changes only by
   the next write of that call). *)
C15_Serialized ==
    [][\A i \in DOMAIN running : \A k \in Keys :
         k = running[i].key
         => /\ Cont(k)' # Cont(k)
               => /\ running[i].todo # <<>>
                  /\ Cont(k)' = Head(running[i].todo)
            /\ \A j \in DOMAIN running' :
                 j > Len(running) => running'[j].key # k]_vars

\* a text solved room 1 of the Shared game and waits on the reply of the
\* success text: the item is in, the room is not entered yet
C15_Witness ==
    /\ Shared
    /\ Len(running) = 1
    /\ running[1].key = "chat"
    /\ running[1].todo # <<>>
    /\ Rec("chat").room = 1
    /\ Rec("chat").inventory = {"RENUNCIA"}
    /\ Stored("u1")
    /\ Stored("u2")

(* C21: a text is handled by the first rule that applies, in the order mode
   unset, completed, active optional, room 0, room 4 sequence, general room
   validation; the reply is the one of that rule, and for mode unset,
   completed and room 0 the record is left as it was (no attempt counted).
   An active optional counts no attempt either; the room 4 sequence and the
   general validation count one attempt of the room the text is judged in. *)
C21_TextPrecedence ==
    \A u \in Participants : \A raw \in RawTexts :
      LET a == st(u)
          r == OnText(a, raw, now)
          b == r.state
      IN  IF a.mode = None
          THEN r.tag = "mode_prompt" /\ b = a
          ELSE IF a.completed
          THEN r.tag = "already_completed" /\ b = a
          ELSE IF a.in_optional # None
          THEN /\ r.tag \in {"optional_retry", "optional_solved"}
               /\ b.attempts = a.attempts
          ELSE IF a.room = 0
          THEN r.tag = "not_started" /\ b = a
          ELSE IF a.room = 4
          THEN /\ r.tag \in {"s4_restart", "s4_retry", "s4_next", "solved"}
               /\ r.tag # "s4_restart"
                  => b.attempts = [a.attempts EXCEPT ![4] = @ + 1]
          ELSE /\ r.tag \in {"retry", "solved", "offer", "final"}
               /\ b.attempts = [a.attempts EXCEPT ![a.room] = @ + 1]

\* an optional is active in room 0: two rules apply to the next text
C21_Witness ==
    /\ Stored("u1")
    /\ Rec("u1").mode = MODE_INDIVIDUAL
    /\ ~Rec("u1").completed
    /\ Rec("u1").in_optional = "A"
    /\ Rec("u1").room = 0

(* C22: in every state the program rests in between two updates, a record
   with currentRoom = 4 has subPuzzleStep in 0..2, so the out-of-range
   branch of the room 4 handler is never taken. *)
C22_Room4StepInRange ==
    Idle => \A k \in Keys :
              (Stored(k) /\ Rec(k).room = 4) => Rec(k).s4_step \in 0..2

(* C23: in every reachable state with currentRoom = n >= 2 the inventory
   holds the reward item of every main room m < n; hence in room 10 the
   inventory holds at least three items. *)
C23_InventoryCoversRooms ==
    \A k \in Keys :
      (Stored(k) /\ Rec(k).room >= 2)
      => /\ \A m \in 1..(Rec(k).room - 1) : ROOMS[m].item \in Rec(k).inventory
         /\ Rec(k).room = 10 => Cardinality(Rec(k).inventory) >= 3

(* C24: in every reachable state a completed record has currentRoom = 10 and
   no active optional: no button pressed after completion moves it to
   another room or into an optional. *)
C24_CompletedStaysInRoom10 ==
    \A k \in Keys :
      (Stored(k) /\ Rec(k).completed)
      => Rec(k).room = 10 /\ Rec(k).in_optional = None

====
